---- MODULE Spec2Model ----
(***************************************************************************)
(* Blue: change scoring -> change buffer -> trigger -> adaptive threshold. *)
(*                                                                         *)
(* The model follows the blue_cli variant of the pipeline:                 *)
(*   CodebaseMonitor  (src/blue/monitoring/codebase_monitor.py)            *)
(*   NavigatorAgent   (src/blue/agents/navigator_agent.py)                 *)
(*   ChatManager      (src/blue/conversation/chat_manager.py)              *)
(*   HistoryManager   (src/blue/conversation/history_manager.py)           *)
(*   FeedbackProcessor(src/blue/conversation/feedback_processor.py)        *)
(*                                                                         *)
(* Time is the integer number of seconds read from time.time().  One       *)
(* action is one whole handler: watchdog delivers file events to           *)
(* _handle_file_change one at a time on the observer thread, and the       *)
(* interactive loop handles one line of user input at a time.              *)
(*                                                                         *)
(* The asyncio variant of the buffer, ObserverAgent (src/agents/observer.py) *)
(* with BlueCLI._on_file_change (src/main.py) as its change callback, is   *)
(* modelled next to it: every notification is a task of its own on the     *)
(* event loop, and a task gives way to the others where it awaits the      *)
(* callback.                                                               *)
(***************************************************************************)
EXTENDS Integers, Sequences, FiniteSets, TLC

VARIABLES
    now,                     \* the clock, time.time()
    change_buffer,           \* CodebaseMonitor.change_buffer (deque, maxlen 10)
    buffer_score,            \* CodebaseMonitor.buffer_score
    last_activity_time,      \* CodebaseMonitor.last_activity_time
    last_processing_time,    \* CodebaseMonitor.last_processing_time
    score_threshold,         \* CodebaseMonitor.score_threshold
    last_eval,               \* what the latest _handle_file_change evaluated and delivered
    events_handled,          \* number of file notifications handled so far
    conversation_history,    \* HistoryManager.conversation_history
    current_score_threshold, \* FeedbackProcessor.current_score_threshold
    feedback_history,        \* FeedbackProcessor.feedback_history
    inputs_handled,          \* number of user inputs handled so far
    limits_score_threshold,  \* config['limits']['score_threshold']
    limits_adaptive_learning, \* config['limits']['enable_adaptive_learning']
    last_input,              \* what the latest process_user_input received and returned
    decision,                \* the latest InterventionAgent / DecisionEngine decision
    event_buffer,            \* ObserverAgent.event_buffer
    last_buffer_flush,       \* ObserverAgent.last_buffer_flush
    in_flight,               \* flushes awaiting their change_callback
    delivered,               \* the batches handed to change_callback, in order
    evaluated,               \* ids of the events given to _process_event_batch
    events_emitted,          \* number of events the watcher has emitted
    scoring,                 \* the latest ChangeAnalyzer._calculate_change_score call
    background_processor,    \* BackgroundProcessor: is_running, background_task, its loop
    cli,                     \* BlueCLI: how far shutdown() has got, and what it started
    navigator,               \* the earlier NavigatorAgent: its conversation_history
    feedback_system,         \* FeedbackSystem: current_score_threshold, feedback_history
    change_analyzer          \* ChangeAnalyzer: file_contents_cache and its latest analysis

vars == <<now, change_buffer, buffer_score, last_activity_time,
          last_processing_time, score_threshold, last_eval, events_handled,
          conversation_history, current_score_threshold, feedback_history,
          inputs_handled, limits_score_threshold, limits_adaptive_learning,
          last_input, decision, event_buffer, last_buffer_flush, in_flight,
          delivered, evaluated, events_emitted, scoring,
          background_processor, cli, navigator, feedback_system,
          change_analyzer>>

monitor_vars == <<change_buffer, buffer_score, last_activity_time,
                  last_processing_time, score_threshold, last_eval,
                  events_handled>>

chat_vars == <<conversation_history, current_score_threshold,
               feedback_history, inputs_handled, last_input>>

config_vars == <<limits_score_threshold, limits_adaptive_learning, decision,
                 scoring>>

observer_vars == <<event_buffer, last_buffer_flush, in_flight, delivered,
                   evaluated, events_emitted>>

lifecycle_vars == <<background_processor, cli>>

navigator_vars == <<navigator, feedback_system>>

analyzer_vars == <<change_analyzer>>

-----------------------------------------------------------------------------
(* Configuration: the defaults of config['limits'].                        *)

buffer_maxlen == 10
buffer_threshold == 4
min_buffer_size == 3
processing_cooldown == 30
config_score_threshold == 5
idle_threshold == 30
max_buffer_age == 120
confidence_threshold == 7
threshold_adjustment == 1
min_score_threshold == 3
max_score_threshold == 10
max_history_size == 8
feedback_timeout_seconds == 60
feedback_history_limit == 100  \* NavigatorAgent.record_feedback: trims above this
event_buffer_size == 10        \* ObserverAgent.buffer_size
buffer_timeout == 5            \* ObserverAgent.buffer_timeout, seconds
enable_adaptive_learning == TRUE

(* The clock value when the program is constructed.  time.time() is far    *)
(* beyond processing_cooldown, so the initial last_processing_time of 0    *)
(* never blocks the first trigger.                                         *)
StartTime == 1000

-----------------------------------------------------------------------------
(* Bounds of the model.                                                    *)

MaxEvents == 3        \* file notifications handled in one behaviour of Spec
MaxInputs == 2        \* user inputs handled in one behaviour of Spec
MaxMonitorEvents == 4 \* file notifications in one behaviour of SpecMonitor
MaxBurstEvents == 14  \* file notifications in one behaviour of SpecBurst
MaxBurstElapsed == 30 \* seconds the clock may advance in SpecBurst
MaxChatInputs == 7    \* user inputs in one behaviour of SpecChat
MaxElapsed == 155     \* seconds the clock may advance past StartTime
MaxChatElapsed == 60  \* the same, in SpecChat
MaxCoreElapsed == 60  \* the same, in Spec
MaxScore == 5         \* largest score of a single change
MaxChunks == 4        \* pieces a language-model response is put together from
MaxLiveEvents == 8       \* file notifications in one behaviour of SpecLive
MaxLiveElapsed == 800    \* seconds the clock may advance in SpecLive
MaxFeedbackRounds == 101 \* replies followed by feedback in SpecFeedbackRounds
MaxNavigatorCalls == 7   \* calls handled in one behaviour of SpecNavigator
MaxAnalyses == 4         \* changes analysed in one behaviour of SpecAnalyzer
MaxGateScore == 15       \* largest buffer_score the comment gate is asked about
MaxGateThreshold == 12   \* largest configured threshold in SpecGate
MaxGateCalls == 4        \* batches handed over in one behaviour of SpecGate
MaxRules == 2            \* pattern rules that apply to one file
MaxMatches == 2          \* occurrences of one pattern in one file
MaxObserverEvents == 5   \* events emitted in one behaviour of SpecObserver
MaxObserverElapsed == 10 \* seconds the clock may advance in SpecObserver

TickSteps == {30, 95}
BurstTickSteps == {25, 30}
HandlerDelays == {0, 5}
Scores == {0, 2, MaxScore}

-----------------------------------------------------------------------------
(* Helpers.                                                                *)

RECURSIVE SumScores(_)
SumScores(s) ==
    IF s = <<>> THEN 0 ELSE Head(s).score + SumScores(Tail(s))

LastN(s, n) ==
    IF Len(s) <= n THEN s ELSE SubSeq(s, Len(s) - n + 1, Len(s))

Max2(a, b) == IF a >= b THEN a ELSE b
Min2(a, b) == IF a <= b THEN a ELSE b

(* Mutant: the deque has no maximal length.                                *)
DequeAppend_Unbounded(buf, ev) == Append(buf, ev)

(* deque(maxlen=10).append: a full deque drops its oldest element.         *)
DequeAppend(buf, ev) ==
    IF Len(buf) >= buffer_maxlen THEN Append(Tail(buf), ev) ELSE Append(buf, ev)

(* ChangeAnalyzer.analyze_change: the ChangeEvent built for a notification.*)
(* functions_added stands for "details['functions_added'] is non-empty".   *)
ChangeEvent(event_type, score, fa, ts) ==
    [event_type |-> event_type, timestamp |-> ts, score |-> score,
     functions_added |-> fa]

(* The (event_type, score, functions_added) results the analyzer produces: *)
(* a deleted or moved path no longer exists, so the score is the base 1    *)
(* and no function is detected; a change that adds a function scores at    *)
(* least 2 per function less the small-change penalty of 1.                *)
AnalyzedChanges ==
    {<<"deleted", 1, FALSE>>, <<"moved", 1, FALSE>>}
    \cup {<<t, s, FALSE>> : t \in {"created", "modified"}, s \in Scores}
    \cup {<<t, s, TRUE>> : t \in {"created", "modified"}, s \in Scores \ {0}}

-----------------------------------------------------------------------------
(* CodebaseMonitor.                                                        *)

(* _clean_old_buffer_entries: the survivors, in order.                     *)
CleanOldBufferEntries(buf, current_time) ==
    SelectSeq(buf, LAMBDA ev : ev.timestamp >= current_time - max_buffer_age)

(* Mutant: the score is adjusted by what the cleaning evicts instead of     *)
(* being re-derived from the survivors.                                    *)
CleanedScore_Incremental(buf, current_time, incoming) ==
    incoming - SumScores(SelectSeq(buf,
                   LAMBDA ev : ev.timestamp < current_time - max_buffer_age))

(* Mutant: the score is left as it was, evicted records included.          *)
CleanedScore_Stale(buf, current_time, incoming) == incoming

(* buffer_score as left by _clean_old_buffer_entries; incoming is the      *)
(* score before the call.                                                  *)
CleanedScore(buf, current_time, incoming) ==
    SumScores(CleanOldBufferEntries(buf, current_time))

HasFunctionCompletion(buf) ==
    \E i \in DOMAIN LastN(buf, 3) : LastN(buf, 3)[i].functions_added

(* ObserverAgent._has_high_priority_patterns (src/blue/agents/observer.py): *)
(* some record of the buffer has an individual score of 4 or more.         *)
HasHighPriorityPatterns(buf) == \E i \in DOMAIN buf : buf[i].score >= 4

HasArchitecturalChange(buf) ==
    /\ \E i \in DOMAIN LastN(buf, 4) : LastN(buf, 4)[i].event_type = "created"
    /\ \E i \in DOMAIN LastN(buf, 4) : LastN(buf, 4)[i].event_type = "modified"

(* Mutant: the cooldown gate is missing.                                   *)
ShouldTriggerProcessing_NoCooldown(buffer_size, buf, score, current_time, last_proc, last_act, thr) ==
    IF buffer_size < min_buffer_size THEN FALSE
    ELSE IF score >= thr THEN TRUE
    ELSE IF current_time - last_act >= idle_threshold /\ buffer_size > 0 THEN TRUE
    ELSE IF HasFunctionCompletion(buf) \/ HasArchitecturalChange(buf) THEN TRUE
    ELSE IF buffer_size >= buffer_threshold THEN TRUE
    ELSE FALSE

(* Mutant: the score has to exceed the threshold.                          *)
ShouldTriggerProcessing_StrictScore(buffer_size, buf, score, current_time, last_proc, last_act, thr) ==
    IF buffer_size < min_buffer_size THEN FALSE
    ELSE IF current_time - last_proc < processing_cooldown THEN FALSE
    ELSE IF score > thr THEN TRUE
    ELSE IF current_time - last_act >= idle_threshold /\ buffer_size > 0 THEN TRUE
    ELSE IF HasFunctionCompletion(buf) \/ HasArchitecturalChange(buf) THEN TRUE
    ELSE IF buffer_size >= buffer_threshold THEN TRUE
    ELSE FALSE

(* Mutant: the buffer size fallback is missing.                            *)
ShouldTriggerProcessing_NoFallback(buffer_size, buf, score, current_time, last_proc, last_act, thr) ==
    IF buffer_size < min_buffer_size THEN FALSE
    ELSE IF current_time - last_proc < processing_cooldown THEN FALSE
    ELSE IF score >= thr THEN TRUE
    ELSE IF current_time - last_act >= idle_threshold /\ buffer_size > 0 THEN TRUE
    ELSE IF HasFunctionCompletion(buf) \/ HasArchitecturalChange(buf) THEN TRUE
    ELSE FALSE

(* _should_trigger_processing, after the cleaning.  buffer_size is the     *)
(* length read before the cleaning; buf and score are the cleaned buffer   *)
(* and its score.                                                          *)
ShouldTriggerProcessing(buffer_size, buf, score, current_time, last_proc, last_act, thr) ==
    IF buffer_size < min_buffer_size THEN FALSE
    ELSE IF current_time - last_proc < processing_cooldown THEN FALSE
    ELSE IF score >= thr THEN TRUE
    ELSE IF current_time - last_act >= idle_threshold /\ buffer_size > 0 THEN TRUE
    ELSE IF HasFunctionCompletion(buf) \/ HasArchitecturalChange(buf) THEN TRUE
    ELSE IF buffer_size >= buffer_threshold THEN TRUE
    ELSE FALSE

GetProcessingReason(buf, score, current_time, last_act, thr) ==
    IF score >= thr THEN "score_threshold"
    ELSE IF current_time - last_act >= idle_threshold THEN "idle_timeout"
    ELSE IF HasFunctionCompletion(buf) THEN "function_completion"
    ELSE IF HasArchitecturalChange(buf) THEN "architectural_change"
    ELSE IF Len(buf) >= buffer_threshold THEN "buffer_full"
    ELSE "threshold_met"

(* buffer_score >= score_threshold * 1.5, in integers.                     *)
AssessPriorityLevel(buf, score, thr) ==
    IF 2 * score >= 3 * thr THEN "high"
    ELSE IF score >= thr \/ HasFunctionCompletion(buf) THEN "medium"
    ELSE "low"

NoSummary == [total_changes |-> 0, processing_reason |-> "none",
              priority_level |-> "none", buffer_score |-> 0]

(* _get_changes_summary plus the processing context added by               *)
(* _trigger_change_processing.                                             *)
ChangesSummary(buf, score, current_time, last_act, thr) ==
    [total_changes |-> Len(buf),
     processing_reason |-> GetProcessingReason(buf, score, current_time, last_act, thr),
     priority_level |-> AssessPriorityLevel(buf, score, thr),
     buffer_score |-> score]

NoEval == [evaluated |-> FALSE, triggered |-> FALSE, current_time |-> 0,
           overflowed |-> FALSE, buffer_size |-> 0, retained |-> 0, score |-> 0,
           since_processing |-> 0, idle_time |-> 0,
           function_completion |-> FALSE, architectural_change |-> FALSE,
           threshold |-> 0, adaptive_threshold |-> 0, summary |-> NoSummary,
           high_priority_patterns |-> FALSE,
           retained_score |-> 0, evicted_score |-> 0,
           surfaced |-> FALSE, handler_failed |-> FALSE,
           after_failure |-> FALSE]

(* What the change handler (NavigatorAgent.process_code_changes) does with *)
(* a triggered batch: it shows a proactive comment, it shows nothing (the  *)
(* client is unavailable, the intervention is declined or no response is   *)
(* generated), or it fails: the language model or the handler raises.      *)
HandlerOutcomes == {"surfaced", "declined", "failed"}

(* Mutant: an exception of a change handler is not caught.                 *)
HandlersReturn_Uncaught(outcome) == outcome # "failed"

(* Whether _trigger_change_processing goes on after the handlers: every    *)
(* handler is called inside try/except Exception, so it does after each    *)
(* outcome.                                                                *)
HandlersReturn(outcome) == outcome \in HandlerOutcomes

(* Mutant: the score is not reset with the buffer.                         *)
ClearBuffer_KeepScore(buf, score) == [change_buffer |-> <<>>, buffer_score |-> score]

(* _clear_buffer: the buffer and the score it leaves.                      *)
ClearBuffer(buf, score) == [change_buffer |-> <<>>, buffer_score |-> 0]

-----------------------------------------------------------------------------
(* HistoryManager and FeedbackProcessor.                                   *)

(* HistoryManager._add_message: append, then keep the most recent          *)
(* max_history_size messages.                                              *)
AddMessage(hist, msg) == LastN(Append(hist, msg), max_history_size)

(* dict.get(key, default).                                                 *)
DictGet(d, key, default) == IF key \in DOMAIN d THEN d[key] ELSE default

(* The metadata handle_proactive_comment stores with a proactive comment.  *)
ProactiveMetadata(changes_summary) ==
    [reason |-> changes_summary.processing_reason,
     score |-> changes_summary.buffer_score]

(* metadata or {} of a message added without metadata.                     *)
NoMetadata == <<>>

(* seq tells the message dicts apart, as their identity does in Python: it *)
(* is the number of the handler that created the message.                  *)
UserMessage(is_feedback) ==
    [role |-> "user", type |-> "user", seq |-> 0, is_feedback |-> is_feedback,
     awaiting_feedback |-> FALSE, feedback_timeout |-> 0,
     metadata |-> NoMetadata]

(* add_assistant_message followed by mark_awaiting_feedback on it.         *)
AwaitingAssistantMessage(message_type, t, seq, metadata) ==
    [role |-> "assistant", type |-> message_type, seq |-> seq,
     is_feedback |-> FALSE, awaiting_feedback |-> TRUE,
     feedback_timeout |-> t + feedback_timeout_seconds,
     metadata |-> metadata]

(* Mutant: a text that also matches a negative keyword is not positive.    *)
IsPositive_Exclusive(text) == text = "positive"

(* any(word in user_input_lower for word in self.positive_keywords): text  *)
(* is the keyword class of the input.                                      *)
IsPositive(text) == text \in {"positive", "both"}
IsNegative(text) == text \in {"negative", "both"}

(* Mutant: the expiry of the entry is not looked at.                       *)
Awaiting_IgnoreExpiry(hist, current_time) ==
    {i \in DOMAIN hist : /\ hist[i].role = "assistant"
                         /\ hist[i].awaiting_feedback}

(* The entries process_potential_feedback may consume at current_time.     *)
Awaiting(hist, current_time) ==
    {i \in DOMAIN hist : /\ hist[i].role = "assistant"
                         /\ hist[i].awaiting_feedback
                         /\ hist[i].feedback_timeout > current_time}

(* Mutant: the history is scanned oldest-first.                            *)
MostRecentAwaiting_OldestFirst(hist, current_time) ==
    CHOOSE i \in Awaiting(hist, current_time) :
        \A j \in Awaiting(hist, current_time) : i <= j

(* for entry in reversed(conversation_history): the first match.           *)
MostRecentAwaiting(hist, current_time) ==
    CHOOSE i \in Awaiting(hist, current_time) :
        \A j \in Awaiting(hist, current_time) : j <= i

(* Mutant: the adjustment is not clamped.                                  *)
AdjustedThreshold_NoClamp(is_positive, current) ==
    IF is_positive
    THEN current - threshold_adjustment
    ELSE current + threshold_adjustment

(* _process_feedback: the adjusted threshold.                              *)
AdjustedThreshold(is_positive, current) ==
    IF is_positive
    THEN Max2(min_score_threshold, current - threshold_adjustment)
    ELSE Min2(max_score_threshold, current + threshold_adjustment)

(* The feedback record; comment_seq stands for the comment the record was  *)
(* made for (its content and timestamp in the code).                       *)
FeedbackRecord(is_positive, entry, old, new) ==
    [is_positive |-> is_positive, comment_type |-> entry.type,
     comment_seq |-> entry.seq,
     comment_score |-> DictGet(entry, "score", 0),
     comment_reason |-> DictGet(entry, "reason", "unknown"),
     old_threshold |-> old, new_threshold |-> new]

(* analyze_feedback_patterns: threshold_trend, from the new_threshold of   *)
(* the last three records.                                                 *)
ThresholdTrend(history) ==
    IF Len(history) >= 3
    THEN LET recent_thresholds ==
                 [k \in 1..3 |-> history[Len(history) - 3 + k].new_threshold]
         IN  IF \A k \in 1..3 : recent_thresholds[k] <= recent_thresholds[1]
             THEN "decreasing"
             ELSE IF \A k \in 1..3 : recent_thresholds[k] >= recent_thresholds[1]
             THEN "increasing"
             ELSE "fluctuating"
    ELSE "stable"

(* Mutant: the flag is set on a copy of the entry and lost.                *)
MarkConsumed_OnCopy(hist, i) == hist

(* entry['awaiting_feedback'] = False on the entry found: the history list *)
(* handed over is a shallow copy, so the entry is the stored one.          *)
MarkConsumed(hist, i) == [hist EXCEPT ![i].awaiting_feedback = FALSE]

NoInput == [handled |-> FALSE, text |-> "none", feedback_processed |-> FALSE]

(* process_potential_feedback returns True.                                *)
FeedbackConsumed(text, hist, current_time) ==
    /\ limits_adaptive_learning
    /\ IsPositive(text) \/ IsNegative(text)
    /\ Awaiting(hist, current_time) # {}

-----------------------------------------------------------------------------
(* The intervention decision stage: InterventionAgent (used by             *)
(* NavigatorAgent) and DecisionEngine (used by the earlier Navigator).     *)
(* A response is the sequence of its characters.                           *)

UpperCase == {"Y", "E", "S", "N", "O"}
Letters == {"y", "e", "s", "n", "o", "w", "b"} \cup UpperCase
DigitChars == <<"1", "2", "3", "4", "5", "6", "7", "8", "9">>
WordChars == Letters \cup {"0"} \cup {DigitChars[k] : k \in DOMAIN DigitChars}

(* str.lower() on one character.                                           *)
LowerChar(c) ==
    CASE c = "Y" -> "y" [] c = "E" -> "e" [] c = "S" -> "s"
      [] c = "N" -> "n" [] c = "O" -> "o" [] OTHER -> c

Lower(response) == [i \in DOMAIN response |-> LowerChar(response[i])]

(* sub in s                                                                *)
Contains(s, sub) ==
    \E i \in 1..(Len(s) - Len(sub) + 1) : SubSeq(s, i, i + Len(sub) - 1) = sub

CharAt(s, i) == IF i \in DOMAIN s THEN s[i] ELSE ""

IsNonZeroDigit(c) == \E k \in DOMAIN DigitChars : DigitChars[k] = c

(* int() of a match of ([1-9]|10).                                         *)
MatchValue(m) ==
    IF Len(m) = 2 THEN 10 ELSE CHOOSE k \in DOMAIN DigitChars : DigitChars[k] = m[1]

(* \b between positions k-1 and k of s.                                    *)
WordBoundary(s, k) == (CharAt(s, k - 1) \in WordChars) # (CharAt(s, k) \in WordChars)

(* The match of r'\b([1-9]|10)\b' that starts at position i: the           *)
(* characters matched and the group, or no characters when there is none.  *)
WordBoundaryMatch(s, i) ==
    IF WordBoundary(s, i) /\ IsNonZeroDigit(CharAt(s, i)) /\ WordBoundary(s, i + 1)
    THEN [len |-> 1, group |-> <<s[i]>>]
    ELSE IF /\ WordBoundary(s, i)
            /\ CharAt(s, i) = "1" /\ CharAt(s, i + 1) = "0"
            /\ WordBoundary(s, i + 2)
    THEN [len |-> 2, group |-> <<"1", "0">>]
    ELSE [len |-> 0, group |-> <<>>]

(* The same for r'\\b([1-9]|10)\\b': in a raw string \\b is a backslash    *)
(* followed by the letter b.                                               *)
BackslashBMatch(s, i) ==
    IF /\ CharAt(s, i) = "\\" /\ CharAt(s, i + 1) = "b"
       /\ IsNonZeroDigit(CharAt(s, i + 2))
       /\ CharAt(s, i + 3) = "\\" /\ CharAt(s, i + 4) = "b"
    THEN [len |-> 5, group |-> <<s[i + 2]>>]
    ELSE IF /\ CharAt(s, i) = "\\" /\ CharAt(s, i + 1) = "b"
            /\ CharAt(s, i + 2) = "1" /\ CharAt(s, i + 3) = "0"
            /\ CharAt(s, i + 4) = "\\" /\ CharAt(s, i + 5) = "b"
    THEN [len |-> 6, group |-> <<"1", "0">>]
    ELSE [len |-> 0, group |-> <<>>]

(* re.findall: the groups of the non-overlapping matches, left to right.   *)
RECURSIVE FindAllWordBoundary(_, _)
FindAllWordBoundary(s, i) ==
    IF i > Len(s) THEN <<>>
    ELSE IF WordBoundaryMatch(s, i).len > 0
    THEN <<WordBoundaryMatch(s, i).group>>
         \o FindAllWordBoundary(s, i + WordBoundaryMatch(s, i).len)
    ELSE FindAllWordBoundary(s, i + 1)

RECURSIVE FindAllBackslashB(_, _)
FindAllBackslashB(s, i) ==
    IF i > Len(s) THEN <<>>
    ELSE IF BackslashBMatch(s, i).len > 0
    THEN <<BackslashBMatch(s, i).group>>
         \o FindAllBackslashB(s, i + BackslashBMatch(s, i).len)
    ELSE FindAllBackslashB(s, i + 1)

(* The rest of both parsers, given the confidence matches found.           *)
ParseWithMatches(response, confidence_matches) ==
    LET response_lower == Lower(response)
        has_yes == Contains(response_lower, <<"y", "e", "s">>)
        has_no == Contains(response_lower, <<"n", "o">>)
    IN  IF ~has_yes /\ ~has_no THEN FALSE
        ELSE IF has_no THEN FALSE
        ELSE IF confidence_matches # <<>>
        THEN has_yes /\ MatchValue(confidence_matches[Len(confidence_matches)])
                        >= confidence_threshold
        ELSE has_yes

(* Mutant: only YES is looked for; an explicit NO is ignored.              *)
ParseInterventionDecision_IgnoreNo(response) ==
    LET has_yes == Contains(Lower(response), <<"y", "e", "s">>)
        confidence_matches == FindAllBackslashB(response, 1)
    IN  IF ~has_yes THEN FALSE
        ELSE IF confidence_matches # <<>>
        THEN MatchValue(confidence_matches[Len(confidence_matches)])
                 >= confidence_threshold
        ELSE TRUE

(* InterventionAgent._parse_intervention_decision                          *)
ParseInterventionDecision(response) ==
    ParseWithMatches(response, FindAllBackslashB(response, 1))

(* DecisionEngine._parse_decision_response                                 *)
ParseDecisionResponse(response) ==
    ParseWithMatches(response, FindAllWordBoundary(response, 1))

(* Mutant: the availability of the client is looked at first.              *)
ShouldIntervene_ClientFirst(enabled, available, outcome, response) ==
    IF ~available THEN FALSE
    ELSE IF ~enabled THEN TRUE
    ELSE IF outcome = "response" /\ response # <<>>
    THEN ParseInterventionDecision(response)
    ELSE FALSE

(* InterventionAgent.should_intervene.  enabled is                         *)
(* limits['enable_llm_decision'], available tells whether the client       *)
(* exists and is available, outcome is what the query does: it returns a   *)
(* response, returns None (the client caught a failure or a timeout) or    *)
(* raises.                                                                 *)
ShouldIntervene(enabled, available, outcome, response) ==
    IF ~enabled THEN TRUE
    ELSE IF ~available THEN TRUE
    ELSE IF outcome = "response" /\ response # <<>>
    THEN ParseInterventionDecision(response)
    ELSE FALSE

(* DecisionEngine.should_comment_via_llm                                   *)
ShouldCommentViaLLM(enabled, available, outcome, response) ==
    IF ~enabled THEN TRUE
    ELSE IF ~available THEN TRUE
    ELSE IF outcome = "response" /\ response # <<>>
    THEN ParseDecisionResponse(response)
    ELSE FALSE

(* Whether should_intervene / should_comment_via_llm reach the query.      *)
LLMQueried(enabled, available) == enabled /\ available

NoDecision == [made |-> FALSE, enabled |-> FALSE, available |-> FALSE,
               outcome |-> "none", response |-> <<>>, queried |-> FALSE,
               intervene |-> FALSE, comment |-> FALSE]

-----------------------------------------------------------------------------
(* Scoring: ScoringEngine and ChangeAnalyzer._calculate_change_score.      *)
(* A pattern rule is given by its configured points, the number of matches *)
(* of its pattern in the content, and whether it is skipped (another       *)
(* language, or an invalid regular expression).                            *)

RECURSIVE ScoreContentPatterns(_)
ScoreContentPatterns(patterns) ==
    IF patterns = <<>> THEN 0
    ELSE (IF ~Head(patterns).skipped /\ Head(patterns).matches > 0
          THEN Head(patterns).matches * Head(patterns).points ELSE 0)
         + ScoreContentPatterns(Tail(patterns))

(* Mutant: the score is not floored at 0.                                  *)
CalculateChangeScore_NoFloor(patterns) == 1 + ScoreContentPatterns(patterns)

(* ScoringEngine.calculate_change_score: the base score 1 plus the pattern *)
(* scores of all categories, floored at 0.                                 *)
CalculateChangeScore(patterns) == Max2(0, 1 + ScoreContentPatterns(patterns))

(* ChangeAnalyzer._calculate_change_score.  details holds what             *)
(* _analyze_file_details found; outcome tells whether the file is gone,    *)
(* reading it raises, or it is read.                                       *)
AnalyzerChangeScore(outcome, patterns, details) ==
    IF outcome = "missing" THEN 1
    ELSE IF outcome = "raises" THEN 1
    ELSE LET engine == CalculateChangeScore(patterns)
             with_functions == engine + 2 * details.functions_added
             with_security == with_functions + (IF details.has_security THEN 3 ELSE 0)
             with_errors == with_security + (IF details.has_error_handling THEN 2 ELSE 0)
             with_tests == with_errors + (IF details.has_tests THEN 2 ELSE 0)
             penalised == IF details.has_lines /\ details.lines_num <= 2
                          THEN Max2(0, with_tests - 1) ELSE with_tests
         IN  Max2(0, penalised)

NoScoring == [made |-> FALSE, outcome |-> "none", pattern_score |-> 0,
              engine_score |-> 0, score |-> 0]

-----------------------------------------------------------------------------
(* ObserverAgent: the event buffer and its flush.  An event is the dict    *)
(* _emit_event builds; id tells the events apart.                          *)

FileEvent(id, type, src_path) == [id |-> id, type |-> type, src_path |-> src_path]

EventIds(events) == {events[i].id : i \in DOMAIN events}

CountType(events, type) == Cardinality({i \in DOMAIN events : events[i].type = type})

AffectedFiles(events) == {events[i].src_path : i \in DOMAIN events}

FileCount(events, path) ==
    Cardinality({i \in DOMAIN events : events[i].src_path = path})

(* _process_event_batch: the significance score of a batch.                *)
SignificanceScore(events) ==
    (IF CountType(events, "created") > 0 THEN 2 ELSE 0)
    + (IF CountType(events, "deleted") > 0 THEN 2 ELSE 0)
    + (IF CountType(events, "moved") > 0 THEN 1 ELSE 0)
    + (IF Cardinality(AffectedFiles(events)) > 1
       THEN Min2(Cardinality(AffectedFiles(events)), 3) ELSE 0)
    + Cardinality({path \in AffectedFiles(events) : FileCount(events, path) > 2})

(* _process_event_batch returns a batch (not None).                        *)
ProcessedEvents(events) == events # <<>> /\ SignificanceScore(events) >= 2

(* The flush condition of _on_file_event.                                  *)
ShouldFlush(buf, t, last_flush) ==
    Len(buf) >= event_buffer_size \/ t - last_flush >= buffer_timeout

-----------------------------------------------------------------------------
(* Initial state: CodebaseMonitor.__init__, HistoryManager.__init__,       *)
(* FeedbackProcessor.__init__.                                             *)

(* BackgroundProcessor.__init__: not running, no task.  last_wakeup is the  *)
(* time of the latest iteration of _background_loop.                       *)
NoBackgroundProcessor ==
    [is_running |-> FALSE, background_task |-> "none", last_wakeup |-> 0]

(* BlueCLI before shutdown() is called.  shutdown_flush is the flush that   *)
(* stop_watching awaits (0: none); callbacks_started counts the change      *)
(* callbacks started since shutdown() was called.                          *)
NoShutdown ==
    [phase |-> "running", shutdown_flush |-> 0, callbacks_started |-> 0]

(* ChangeAnalyzer.__init__: an empty file_contents_cache.  The cache maps  *)
(* a path to the content last analysed (a content is the set of the        *)
(* function names it defines); scored maps a path to the content of its    *)
(* previous scoring, analysed counts the calls of analyze_change.          *)
NoAnalysis ==
    [made |-> FALSE, file_path |-> "none", event_type |-> "none",
     outcome |-> "none", content |-> {}, previous_content |-> {},
     scored_before |-> FALSE, functions_added |-> {}, error |-> FALSE,
     score |-> 0]

NoChangeAnalyzer ==
    [file_contents_cache |-> [q \in {} |-> {}], scored |-> [q \in {} |-> {}],
     analysed |-> 0,
     last |-> NoAnalysis]

(* The earlier NavigatorAgent.__init__: an empty conversation_history;     *)
(* handled counts the calls of process_changes and handle_user_input.      *)
NoNavigator == [conversation_history |-> <<>>, handled |-> 0]

InitWith(configured, learning) ==
    /\ now = StartTime
    /\ limits_score_threshold = configured
    /\ limits_adaptive_learning = learning
    /\ change_buffer = <<>>
    /\ buffer_score = 0
    /\ last_activity_time = StartTime
    /\ last_processing_time = 0
    /\ score_threshold = configured
    /\ last_eval = NoEval
    /\ events_handled = 0
    /\ conversation_history = <<>>
    /\ current_score_threshold = configured
    /\ feedback_history = <<>>
    /\ inputs_handled = 0
    /\ last_input = NoInput
    /\ decision = NoDecision
    /\ event_buffer = <<>>
    /\ last_buffer_flush = StartTime
    /\ in_flight = {}
    /\ delivered = <<>>
    /\ evaluated = {}
    /\ events_emitted = 0
    /\ scoring = NoScoring
    /\ background_processor = NoBackgroundProcessor
    /\ cli = NoShutdown
    /\ navigator = NoNavigator
    /\ change_analyzer = NoChangeAnalyzer
    /\ feedback_system = [current_score_threshold |-> configured,
                          feedback_history |-> <<>>]

(* The built-in configuration.                                             *)
Init == InitWith(config_score_threshold, enable_adaptive_learning)

(* A configuration file may set score_threshold to any value and switch    *)
(* adaptive learning off: the loader fills in missing keys and checks      *)
(* nothing else.                                                           *)
ConfiguredScoreThresholds ==
    {min_score_threshold - 2, config_score_threshold, max_score_threshold - 1,
     max_score_threshold + 2}

InitConfigured ==
    \E configured \in ConfiguredScoreThresholds, learning \in BOOLEAN :
        InitWith(configured, learning)

-----------------------------------------------------------------------------
(* Actions.                                                                *)

(* CodebaseMonitor._handle_file_change for one notification, including the *)
(* trigger evaluation, _trigger_change_processing and the change handler   *)
(* NavigatorAgent.process_code_changes it calls.  delay is the time the    *)
(* handlers take; outcome is what the change handler does with the batch   *)
(* (without a trigger no handler runs: no delay, nothing shown).           *)
HandleFileChange(event_type, score, fa, delay, outcome) ==
    LET ev == ChangeEvent(event_type, score, fa, now)
        surfaced == outcome = "surfaced"
        failed == outcome = "failed"
        appended == DequeAppend(change_buffer, ev)
        added_score == buffer_score + score
        current_time == now
        buffer_size == Len(appended)
        cleaned == CleanOldBufferEntries(appended, current_time)
        cleaned_score == CleanedScore(appended, current_time, added_score)
        trigger == ShouldTriggerProcessing(buffer_size, cleaned, cleaned_score,
                       current_time, last_processing_time, now, score_threshold)
        summary == ChangesSummary(cleaned, cleaned_score, current_time, now,
                                  score_threshold)
        done == now + delay
    IN  /\ ~trigger => (delay = 0 /\ outcome = "declined")
        /\ events_handled' = events_handled + 1
        /\ last_activity_time' = now
        /\ last_eval' = [evaluated |-> TRUE, triggered |-> trigger,
                         current_time |-> current_time,
                         overflowed |-> Len(change_buffer) >= buffer_maxlen,
                         buffer_size |-> buffer_size,
                         retained |-> Len(cleaned),
                         score |-> cleaned_score,
                         since_processing |-> current_time - last_processing_time,
                         idle_time |-> current_time - now,
                         function_completion |-> HasFunctionCompletion(cleaned),
                         architectural_change |-> HasArchitecturalChange(cleaned),
                         threshold |-> score_threshold,
                         adaptive_threshold |-> current_score_threshold,
                         summary |-> IF trigger THEN summary ELSE NoSummary,
                         retained_score |-> SumScores(cleaned),
                         evicted_score |-> SumScores(appended) - SumScores(cleaned),
                         high_priority_patterns |->
                             trigger /\ HasHighPriorityPatterns(cleaned),
                         surfaced |-> trigger /\ surfaced,
                         handler_failed |-> trigger /\ failed,
                         after_failure |-> \/ last_eval.after_failure
                                           \/ trigger /\ failed]
        /\ IF trigger /\ ~HandlersReturn(outcome)
           THEN /\ now' = done
                /\ last_processing_time' = last_processing_time
                /\ change_buffer' = cleaned
                /\ buffer_score' = cleaned_score
                /\ conversation_history' = conversation_history
           ELSE IF trigger
           THEN /\ now' = done
                /\ last_processing_time' = done
                /\ change_buffer' = ClearBuffer(cleaned, cleaned_score).change_buffer
                /\ buffer_score' = ClearBuffer(cleaned, cleaned_score).buffer_score
                /\ conversation_history' =
                       IF surfaced
                       THEN AddMessage(conversation_history,
                                AwaitingAssistantMessage("proactive", done,
                                    events_handled + 1,
                                    ProactiveMetadata(summary)))
                       ELSE conversation_history
           ELSE /\ delay = 0
                /\ outcome = "declined"
                /\ now' = now
                /\ last_processing_time' = last_processing_time
                /\ change_buffer' = cleaned
                /\ buffer_score' = cleaned_score
                /\ conversation_history' = conversation_history
        /\ UNCHANGED <<score_threshold, current_score_threshold,
                       feedback_history, inputs_handled, last_input,
                       config_vars, observer_vars, lifecycle_vars,
                   navigator_vars, analyzer_vars>>

(* ChatManager.process_user_input for one line of input.  text is the      *)
(* keyword class of the input; responded tells whether the navigator       *)
(* produced a conversational response.                                     *)
UserInput(text, responded) ==
    LET hist == conversation_history
        consumed == FeedbackConsumed(text, hist, now)
        i == MostRecentAwaiting(hist, now)
        new_threshold == AdjustedThreshold(IsPositive(text), current_score_threshold)
        marked == IF consumed THEN MarkConsumed(hist, i) ELSE hist
        with_user == AddMessage(marked, UserMessage(consumed))
    IN  /\ inputs_handled' = inputs_handled + 1
        /\ last_input' = [handled |-> TRUE, text |-> text,
                          feedback_processed |-> consumed]
        /\ IF consumed
           THEN /\ ~responded
                /\ current_score_threshold' = new_threshold
                /\ feedback_history' =
                       Append(feedback_history,
                              FeedbackRecord(IsPositive(text), hist[i],
                                             current_score_threshold, new_threshold))
                /\ conversation_history' = with_user
           ELSE /\ UNCHANGED <<current_score_threshold, feedback_history>>
                /\ conversation_history' =
                       IF responded
                       THEN AddMessage(with_user,
                                AwaitingAssistantMessage("conversational", now,
                                    inputs_handled + 1, NoMetadata))
                       ELSE with_user
        /\ UNCHANGED <<now, monitor_vars, config_vars, observer_vars, lifecycle_vars,
                   navigator_vars, analyzer_vars>>

(* Mutant: the feedback history is cleared and the threshold is kept.      *)
ClearConversation_KeepThreshold ==
    /\ inputs_handled' = inputs_handled + 1
    /\ conversation_history' = <<>>
    /\ feedback_history' = <<>>
    /\ UNCHANGED <<now, monitor_vars, current_score_threshold, last_input,
                   config_vars, observer_vars, lifecycle_vars,
                   navigator_vars, analyzer_vars>>

(* The 'clear' command: ChatManager.clear_conversation.                    *)
ClearConversation ==
    /\ inputs_handled' = inputs_handled + 1
    /\ conversation_history' = <<>>
    /\ feedback_history' = <<>>
    /\ current_score_threshold' = limits_score_threshold
    /\ UNCHANGED <<now, monitor_vars, last_input, config_vars, observer_vars, lifecycle_vars,
                   navigator_vars, analyzer_vars>>

(* Time passes while the monitor loop sleeps and no handler runs.          *)
Tick(d, limit) ==
    /\ now + d <= StartTime + limit
    /\ now' = now + d
    /\ UNCHANGED <<monitor_vars, chat_vars, config_vars, observer_vars, lifecycle_vars,
                   navigator_vars, analyzer_vars>>

(* The results the analyzer produces for a burst of edits to one file.     *)
BurstChanges == {<<"modified", 0, FALSE>>, <<"modified", 2, FALSE>>}

InputTexts == {"positive", "negative", "both", "neutral"}
ChatTexts == {"positive", "negative", "neutral"}

(* The changes Spec draws from: a plain edit, a significant edit, and a new *)
(* file that defines a function.                                           *)
CoreChanges == {<<"modified", 2, FALSE>>, <<"modified", MaxScore, FALSE>>,
                <<"created", 2, TRUE>>}

FileChange ==
    /\ events_handled < MaxEvents
    /\ \E c \in CoreChanges, delay \in HandlerDelays,
          outcome \in HandlerOutcomes :
           HandleFileChange(c[1], c[2], c[3], delay, outcome)

Input ==
    /\ inputs_handled < MaxInputs
    /\ \E text \in InputTexts, responded \in BOOLEAN : UserInput(text, responded)

Clear ==
    /\ inputs_handled < MaxInputs
    /\ ClearConversation

Sleep == \E d \in TickSteps : Tick(d, MaxElapsed)

CoreSleep == \E d \in TickSteps : Tick(d, MaxCoreElapsed)

Next == FileChange \/ Input \/ Clear \/ CoreSleep

Spec == Init /\ [][Next]_vars

(* The monitor alone, on every kind of analysed change, with a change     *)
(* handler that does not fail.                                             *)
MonitorFileChange ==
    /\ events_handled < MaxMonitorEvents
    /\ \E c \in AnalyzedChanges, delay \in HandlerDelays,
          outcome \in HandlerOutcomes \ {"failed"} :
           HandleFileChange(c[1], c[2], c[3], delay, outcome)

NextMonitor == MonitorFileChange \/ Sleep

SpecMonitor == Init /\ [][NextMonitor]_vars

(* The monitor alone, with time always passing: start_monitoring keeps      *)
(* sleeping while the program runs.  Notifications are the environment's   *)
(* and carry no fairness.                                                  *)
SpecMonitorFair == SpecMonitor /\ WF_vars(Sleep)

(* The monitor alone, on long bursts of edits (the buffer fills up).       *)
BurstFileChange ==
    /\ events_handled < MaxBurstEvents
    /\ \E c \in BurstChanges, delay \in HandlerDelays,
          outcome \in HandlerOutcomes :
           HandleFileChange(c[1], c[2], c[3], delay, outcome)

BurstSleep == \E d \in BurstTickSteps : Tick(d, MaxBurstElapsed)

NextBurst == BurstFileChange \/ BurstSleep

SpecBurst == Init /\ [][NextBurst]_vars

(* The conversation alone, on long sequences of user inputs, under the     *)
(* configurations of ConfiguredScoreThresholds.                            *)
ChatInput ==
    /\ inputs_handled < MaxChatInputs
    /\ \E text \in ChatTexts, responded \in BOOLEAN : UserInput(text, responded)

ChatClear ==
    /\ inputs_handled < MaxChatInputs
    /\ ClearConversation

ChatSleep == \E d \in TickSteps : Tick(d, MaxChatElapsed)

NextChat == ChatInput \/ ChatClear \/ ChatSleep

SpecChat == InitConfigured /\ [][NextChat]_vars

(* The conversation alone, on a long exchange: the assistant replies, the  *)
(* user answers the reply with negative feedback, and so on.               *)
RoundReply ==
    /\ inputs_handled < 2 * MaxFeedbackRounds
    /\ Awaiting(conversation_history, now) = {}
    /\ UserInput("neutral", TRUE)

RoundFeedback ==
    /\ inputs_handled < 2 * MaxFeedbackRounds
    /\ Awaiting(conversation_history, now) # {}
    /\ UserInput("negative", FALSE)

NextFeedbackRounds == RoundReply \/ RoundFeedback

SpecFeedbackRounds == Init /\ [][NextFeedbackRounds]_vars

(* One decision of the intervention stage on a triggered batch; the same   *)
(* inputs are given to DecisionEngine.                                     *)
Decide(enabled, available, outcome, response) ==
    /\ decision' = [made |-> TRUE, enabled |-> enabled, available |-> available,
                    outcome |-> outcome, response |-> response,
                    queried |-> LLMQueried(enabled, available),
                    intervene |-> ShouldIntervene(enabled, available, outcome, response),
                    comment |-> ShouldCommentViaLLM(enabled, available, outcome, response)]
    /\ UNCHANGED <<now, monitor_vars, chat_vars, limits_score_threshold,
                   limits_adaptive_learning, observer_vars, scoring,
                   lifecycle_vars,
                   navigator_vars, analyzer_vars>>

(* The pieces responses are put together from.                             *)
Chunks == {<<"Y", "E", "S">>, <<"y", "e", "s">>, <<"N", "O">>, <<"n", "o", "w">>,
           <<" ">>, <<"1">>, <<"0">>, <<"6">>, <<"7">>, <<"\\", "b">>}

RECURSIVE Concat(_)
Concat(pieces) ==
    IF pieces = <<>> THEN <<>> ELSE Head(pieces) \o Concat(Tail(pieces))

Responses ==
    {Concat(pieces) : pieces \in UNION {[1..n -> Chunks] : n \in 0..MaxChunks}}

Outcomes == {"response", "none", "raises"}

(* The stage keeps no state between decisions: one decision per behaviour. *)
DecideBatch ==
    /\ ~decision.made
    /\ \E enabled \in BOOLEAN, available \in BOOLEAN, outcome \in Outcomes,
          response \in Responses :
           /\ outcome # "response" => response = <<>>
           /\ Decide(enabled, available, outcome, response)

NextDecision == DecideBatch

(* The decision stage alone, on every response of Responses.               *)
SpecDecision == Init /\ [][NextDecision]_vars

(* The monitor alone under notifications that keep arriving, some time     *)
(* apart: a few seconds in a burst, or longer than half of max_buffer_age. *)
LiveTickSteps == {10, 95}

LiveFileChange ==
    /\ events_handled < MaxLiveEvents
    /\ now > last_activity_time
    /\ \E c \in BurstChanges, delay \in HandlerDelays,
          outcome \in HandlerOutcomes :
           HandleFileChange(c[1], c[2], c[3], delay, outcome)

LiveSleep ==
    /\ now = last_activity_time
    /\ \E d \in LiveTickSteps : Tick(d, MaxLiveElapsed)

NextLive == LiveFileChange \/ LiveSleep

(* The clock keeps running and, as long as the bound allows, notifications *)
(* keep arriving.                                                          *)
SpecLive ==
    /\ Init /\ [][NextLive]_vars
    /\ WF_vars(LiveFileChange) /\ WF_vars(LiveSleep)

-----------------------------------------------------------------------------
(* The scoring of one change.                                              *)

AnalyzeChange(outcome, patterns, details) ==
    /\ scoring' = [made |-> TRUE, outcome |-> outcome,
                   pattern_score |-> ScoreContentPatterns(patterns),
                   engine_score |-> CalculateChangeScore(patterns),
                   score |-> AnalyzerChangeScore(outcome, patterns, details)]
    /\ UNCHANGED <<now, monitor_vars, chat_vars, limits_score_threshold,
                   limits_adaptive_learning, decision, observer_vars, lifecycle_vars,
                   navigator_vars, analyzer_vars>>

(* Configured points: rules may carry negative values.                     *)
PatternPoints == {-3, -1, 2}

PatternRules == [points : PatternPoints, matches : 0..MaxMatches, skipped : BOOLEAN]

PatternLists == UNION {[1..n -> PatternRules] : n \in 0..MaxRules}

ChangeDetails == [functions_added : 0..1, has_security : BOOLEAN,
                  has_error_handling : BOOLEAN, has_tests : BOOLEAN,
                  has_lines : BOOLEAN, lines_num : {0, 3}]

FileOutcomes == {"read", "missing", "raises"}

(* The analyzer keeps no score between calls: one call per behaviour.      *)
ScoreChange ==
    /\ ~scoring.made
    /\ \E outcome \in FileOutcomes, patterns \in PatternLists,
          details \in ChangeDetails :
           AnalyzeChange(outcome, patterns, details)

NextScoring == ScoreChange

(* The scoring stage alone.                                                *)
SpecScoring == Init /\ [][NextScoring]_vars

-----------------------------------------------------------------------------
(* The analysis of changes to files, with the previous-content cache.      *)

(* self.file_contents_cache.get(file_path, ''): the empty string defines   *)
(* no function.                                                            *)
CachedContent(cache, file_path) ==
    IF file_path \in DOMAIN cache THEN cache[file_path] ELSE {}

(* Mutant: the cache keeps what it had.                                    *)
UpdateCache_Stale(cache, file_path, content) == cache

(* self.file_contents_cache[file_path] = current_content.                  *)
UpdateCache(cache, file_path, content) ==
    [q \in DOMAIN cache \cup {file_path} |->
        IF q = file_path THEN content ELSE cache[q]]

(* self.file_contents_cache.pop(file_path, None).                          *)
PopCache(cache, file_path) == [q \in DOMAIN cache \ {file_path} |-> cache[q]]

(* list(current_functions - previous_functions).                           *)
FunctionsAdded(current_content, previous_content) ==
    current_content \ previous_content

(* ChangeAnalyzer.analyze_change: _analyze_file_details and then           *)
(* _calculate_change_score.  outcome tells what opening the file does at   *)
(* both places: it is read (with content, and lines_num lines changed),    *)
(* it is missing, or opening it raises.  A deleted file is missing.        *)
AnalyzeFileChange(file_path, event_type, outcome, content, lines_num) ==
    LET cache == change_analyzer.file_contents_cache
        previous_content == CachedContent(cache, file_path)
        read == event_type # "deleted" /\ outcome = "read"
        functions_added == IF read THEN FunctionsAdded(content, previous_content)
                           ELSE {}
        details == [functions_added |-> Cardinality(functions_added),
                    has_security |-> FALSE, has_error_handling |-> FALSE,
                    has_tests |-> FALSE, has_lines |-> read,
                    lines_num |-> lines_num]
    IN  /\ event_type = "deleted" => outcome = "missing"
        /\ ~read => (content = {} /\ lines_num = 0)
        /\ change_analyzer' =
               [file_contents_cache |->
                    IF event_type = "deleted" THEN PopCache(cache, file_path)
                    ELSE IF read THEN UpdateCache(cache, file_path, content)
                    ELSE cache,
                scored |->
                    IF event_type = "deleted"
                    THEN PopCache(change_analyzer.scored, file_path)
                    ELSE IF read
                    THEN [q \in DOMAIN change_analyzer.scored \cup {file_path} |->
                             IF q = file_path THEN content
                             ELSE change_analyzer.scored[q]]
                    ELSE change_analyzer.scored,
                analysed |-> change_analyzer.analysed + 1,
                last |-> [made |-> TRUE, file_path |-> file_path,
                          event_type |-> event_type, outcome |-> outcome,
                          content |-> content,
                          previous_content |->
                              CachedContent(change_analyzer.scored, file_path),
                          scored_before |->
                              file_path \in DOMAIN change_analyzer.scored,
                          functions_added |-> functions_added,
                          error |-> event_type # "deleted" /\ outcome = "raises",
                          score |-> AnalyzerChangeScore(outcome, <<>>, details)]]
        /\ UNCHANGED <<now, monitor_vars, chat_vars, config_vars, observer_vars,
                       lifecycle_vars, navigator_vars>>

AnalyzedPaths == {"a.py", "b.py"}
FunctionNames == {"f", "g"}
AnalyzedEventTypes == {"created", "modified", "deleted"}

AnalyzeChangeEvent ==
    /\ change_analyzer.analysed < MaxAnalyses
    /\ \E file_path \in AnalyzedPaths, event_type \in AnalyzedEventTypes,
          outcome \in FileOutcomes, content \in SUBSET FunctionNames,
          lines_num \in {0, 3} :
           AnalyzeFileChange(file_path, event_type, outcome, content, lines_num)

NextAnalyzer == AnalyzeChangeEvent

(* The change analyzer alone, on a sequence of changes to two files.       *)
SpecAnalyzer == Init /\ [][NextAnalyzer]_vars

-----------------------------------------------------------------------------
(* ObserverAgent on the event loop.                                        *)

(* ObserverAgent._on_file_event for one emitted event, up to the point     *)
(* where it returns or awaits the change callback: the event is appended;  *)
(* when the flush condition holds _flush_event_buffer copies the buffer    *)
(* and processes the copy; an insignificant batch is dropped and the       *)
(* buffer cleared at once, a significant one is handed to change_callback  *)
(* and the task waits for it.                                              *)
OnFileEvent(type, src_path) ==
    LET ev == FileEvent(events_emitted + 1, type, src_path)
        appended == Append(event_buffer, ev)
        flush == ShouldFlush(appended, now, last_buffer_flush)
    IN  /\ events_emitted' = events_emitted + 1
        /\ evaluated' = IF flush THEN evaluated \cup EventIds(appended)
                        ELSE evaluated
        /\ IF flush /\ ProcessedEvents(appended)
           THEN /\ delivered' = Append(delivered, EventIds(appended))
                /\ in_flight' = in_flight \cup
                       {[flush |-> Len(delivered) + 1, raw_events |-> EventIds(appended)]}
                /\ event_buffer' = appended
                /\ last_buffer_flush' = last_buffer_flush
           ELSE IF flush
           THEN /\ event_buffer' = <<>>
                /\ last_buffer_flush' = now
                /\ UNCHANGED <<delivered, in_flight>>
           ELSE /\ event_buffer' = appended
                /\ UNCHANGED <<delivered, in_flight, last_buffer_flush>>
        /\ UNCHANGED <<now, monitor_vars, chat_vars, config_vars>>

(* change_callback returns to the flush f that awaited it: the rest of     *)
(* _flush_event_buffer clears the buffer and notes the time.               *)
FlushReturn(f) ==
    /\ in_flight' = in_flight \ {f}
    /\ event_buffer' = <<>>
    /\ last_buffer_flush' = now
    /\ UNCHANGED <<now, monitor_vars, chat_vars, config_vars, delivered,
                   evaluated, events_emitted>>

(* The events the watcher emits: a new file, and edits to two files.       *)
ObserverChanges == {<<"created", "a">>, <<"modified", "a">>, <<"modified", "b">>}

ObserverTickSteps == {buffer_timeout}

ObserverFileEvent ==
    /\ events_emitted < MaxObserverEvents
    /\ \E c \in ObserverChanges : OnFileEvent(c[1], c[2])
    /\ UNCHANGED <<lifecycle_vars, navigator_vars, analyzer_vars>>

ObserverCallbackReturns ==
    /\ \E f \in in_flight : FlushReturn(f)
    /\ UNCHANGED <<lifecycle_vars, navigator_vars, analyzer_vars>>

ObserverSleep == \E d \in ObserverTickSteps : Tick(d, MaxObserverElapsed)

NextObserver == ObserverFileEvent \/ ObserverCallbackReturns \/ ObserverSleep

(* The asyncio observer alone.                                             *)
SpecObserver == Init /\ [][NextObserver]_vars

-----------------------------------------------------------------------------
(* The earlier NavigatorAgent (blue/agents/navigator.py) with its          *)
(* FeedbackSystem.                                                         *)

(* The proactive comments among the last three entries of the history.     *)
RecentComments(hist) ==
    Cardinality({i \in DOMAIN hist :
                    /\ i > Len(hist) - 3
                    /\ DictGet(hist[i], "type", "none") = "proactive"})

(* Mutant: the primary rule accepts scores up to the threshold.            *)
ShouldGenerateComment_Inverted(changes_summary, score_threshold_, hist) ==
    /\ changes_summary.processing_reason = "score_threshold"
    /\ changes_summary.buffer_score <= score_threshold_

(* NavigatorAgent._should_generate_comment with the adaptive threshold     *)
(* score_threshold.                                                        *)
ShouldGenerateComment(changes_summary, score_threshold_, hist) ==
    LET priority == changes_summary.priority_level
        reason == changes_summary.processing_reason
        score == changes_summary.buffer_score
    IN  IF reason = "score_threshold" /\ score >= score_threshold_ THEN TRUE
        ELSE IF priority = "high" /\ score >= Max2(score_threshold_ - 2, 3) THEN TRUE
        ELSE IF reason = "function_completion"
                /\ score >= Max2(score_threshold_ - 1, 3) THEN TRUE
        ELSE IF reason = "architectural_change"
                /\ score >= Max2(score_threshold_ - 1, 3) THEN TRUE
        ELSE IF reason = "idle_timeout"
                /\ score >= Max2(score_threshold_ - 2, 2) THEN TRUE
        ELSE IF priority = "medium" /\ score >= score_threshold_
             THEN RecentComments(hist) <= 1
        ELSE IF priority = "low" /\ score >= score_threshold_ + 2
             THEN changes_summary.files_affected >= 2
        ELSE FALSE

(* The comment entry of process_changes, marked as awaiting feedback.      *)
CommentEntry(changes_summary, t) ==
    [role |-> "assistant", type |-> "proactive",
     reason |-> changes_summary.processing_reason,
     score |-> changes_summary.buffer_score,
     awaiting_feedback |-> TRUE,
     feedback_timeout |-> t + feedback_timeout_seconds]

(* The entries handle_user_input appends; they carry no awaiting_feedback  *)
(* key, which entry.get reads as not awaiting.                             *)
UserEntry(is_feedback) ==
    [role |-> "user", is_feedback |-> is_feedback,
     awaiting_feedback |-> FALSE, feedback_timeout |-> 0]

ReplyEntry ==
    [role |-> "assistant", awaiting_feedback |-> FALSE, feedback_timeout |-> 0]

(* FeedbackSystem._process_feedback: the record; old_threshold is worked   *)
(* back from the threshold after the adjustment.                           *)
FeedbackSystemRecord(is_positive, entry, new) ==
    [is_positive |-> is_positive,
     comment_score |-> DictGet(entry, "score", 0),
     comment_reason |-> DictGet(entry, "reason", "unknown"),
     old_threshold |-> new + (IF is_positive THEN threshold_adjustment
                              ELSE -threshold_adjustment),
     new_threshold |-> new]

(* NavigatorAgent.process_changes on a batch; llm_decision is the answer   *)
(* of the decision engine, responded tells whether a response came.        *)
ProcessChanges(changes_summary, llm_decision, responded) ==
    LET hist == navigator.conversation_history
        comment == /\ ShouldGenerateComment(changes_summary,
                          feedback_system.current_score_threshold, hist)
                   /\ llm_decision
                   /\ responded
    IN  /\ navigator' =
               [conversation_history |->
                    IF comment THEN Append(hist, CommentEntry(changes_summary, now))
                    ELSE hist,
                handled |-> navigator.handled + 1]
        /\ UNCHANGED <<now, monitor_vars, chat_vars, config_vars, observer_vars,
                       lifecycle_vars, feedback_system,
                       analyzer_vars>>

(* NavigatorAgent.handle_user_input for one line of input.                 *)
HandleUserInput(text, responded) ==
    LET hist == navigator.conversation_history
        consumed == FeedbackConsumed(text, hist, now)
        i == MostRecentAwaiting(hist, now)
        new_threshold == AdjustedThreshold(IsPositive(text),
                                           feedback_system.current_score_threshold)
        marked == IF consumed THEN MarkConsumed(hist, i) ELSE hist
        with_user == Append(marked, UserEntry(consumed))
    IN  /\ consumed => ~responded
        /\ navigator' =
               [conversation_history |->
                    IF ~consumed /\ responded THEN Append(with_user, ReplyEntry)
                    ELSE with_user,
                handled |-> navigator.handled + 1]
        /\ feedback_system' =
               IF consumed
               THEN [current_score_threshold |-> new_threshold,
                     feedback_history |->
                         Append(feedback_system.feedback_history,
                                FeedbackSystemRecord(IsPositive(text), hist[i],
                                                     new_threshold))]
               ELSE feedback_system
        /\ UNCHANGED <<now, monitor_vars, chat_vars, config_vars, observer_vars,
                       lifecycle_vars, analyzer_vars>>

(* Every batch summary the gate can be asked about.                        *)
GateSummaries ==
    [buffer_score : 0..MaxGateScore,
     priority_level : {"low", "medium", "high"},
     processing_reason : {"score_threshold", "idle_timeout", "function_completion",
                          "architectural_change", "buffer_full", "threshold_met"},
     files_affected : {1, 2}]

(* The batches the monitor hands over.                                     *)
NavigatorSummaries ==
    {[buffer_score |-> 6, priority_level |-> "medium",
      processing_reason |-> "score_threshold", files_affected |-> 1],
     [buffer_score |-> 4, priority_level |-> "low",
      processing_reason |-> "buffer_full", files_affected |-> 2]}

NavigatorChanges ==
    /\ navigator.handled < MaxNavigatorCalls
    /\ \E changes_summary \in NavigatorSummaries, llm_decision \in BOOLEAN :
           ProcessChanges(changes_summary, llm_decision, TRUE)

NavigatorInput ==
    /\ navigator.handled < MaxNavigatorCalls
    /\ \E text \in ChatTexts, responded \in BOOLEAN :
           HandleUserInput(text, responded)

NavigatorSleep == \E d \in TickSteps : Tick(d, MaxChatElapsed)

NextNavigator == NavigatorChanges \/ NavigatorInput \/ NavigatorSleep

SpecNavigator == Init /\ [][NextNavigator]_vars

(* The comment gate alone: batches handed to process_changes under every   *)
(* configured threshold of GateThresholds.                                 *)
GateThresholds == 1..MaxGateThreshold

InitGate == \E configured \in GateThresholds : InitWith(configured, TRUE)

GateChanges ==
    /\ navigator.handled < MaxGateCalls
    /\ \E changes_summary \in NavigatorSummaries, llm_decision \in BOOLEAN :
           ProcessChanges(changes_summary, llm_decision, TRUE)

NextGate == GateChanges

SpecGate == InitGate /\ [][NextGate]_vars

-----------------------------------------------------------------------------
(* Start and shutdown of the asyncio program (BlueCLI in src/main.py).     *)

background_poll_interval == 5  \* _background_loop: await asyncio.sleep(5)

(* BackgroundProcessor.start: is_running is set and the loop's task made.  *)
BackgroundStart ==
    /\ cli.phase = "running"
    /\ ~background_processor.is_running
    /\ background_processor' =
           [background_processor EXCEPT !.is_running = TRUE,
                                        !.background_task = "pending",
                                        !.last_wakeup = now]
    /\ UNCHANGED <<now, monitor_vars, chat_vars, config_vars, observer_vars, cli,
                   navigator_vars, analyzer_vars>>

(* One iteration of _background_loop: the task wakes from its sleep while  *)
(* is_running holds.                                                       *)
BackgroundLoop ==
    /\ background_processor.is_running
    /\ background_processor.background_task = "pending"
    /\ now >= background_processor.last_wakeup + background_poll_interval
    /\ background_processor' = [background_processor EXCEPT !.last_wakeup = now]
    /\ UNCHANGED <<now, monitor_vars, chat_vars, config_vars, observer_vars, cli,
                   navigator_vars, analyzer_vars>>

(* BlueCLI.shutdown up to the end of, or the await in, stop_watching: the  *)
(* watcher thread is stopped and joined, then _flush_event_buffer runs on  *)
(* what is left in the buffer; a significant batch is handed to            *)
(* change_callback and shutdown waits for it.                              *)
StopWatching ==
    /\ cli.phase = "running"
    /\ IF ProcessedEvents(event_buffer)
       THEN /\ delivered' = Append(delivered, EventIds(event_buffer))
            /\ in_flight' = in_flight \cup
                   {[flush |-> Len(delivered) + 1,
                     raw_events |-> EventIds(event_buffer)]}
            /\ evaluated' = evaluated \cup EventIds(event_buffer)
            /\ cli' = [phase |-> "stop_watching",
                       shutdown_flush |-> Len(delivered) + 1,
                       callbacks_started |-> cli.callbacks_started + 1]
            /\ UNCHANGED <<event_buffer, last_buffer_flush>>
       ELSE /\ event_buffer' = <<>>
            /\ last_buffer_flush' = IF event_buffer = <<>> THEN last_buffer_flush
                                    ELSE now
            /\ evaluated' = evaluated \cup EventIds(event_buffer)
            /\ cli' = [cli EXCEPT !.phase = "observer_stopped"]
            /\ UNCHANGED <<delivered, in_flight>>
    /\ UNCHANGED <<now, monitor_vars, chat_vars, config_vars, events_emitted,
                   background_processor, navigator_vars, analyzer_vars>>

(* A change callback returns; when it is the one stop_watching awaits,     *)
(* stop_watching returns to shutdown.                                      *)
ShutdownFlushReturn(f) ==
    /\ FlushReturn(f)
    /\ cli' = IF f.flush = cli.shutdown_flush
              THEN [cli EXCEPT !.phase = "observer_stopped"]
              ELSE cli
    /\ UNCHANGED <<background_processor, navigator_vars, analyzer_vars>>

(* Mutant: the loop's task is left running.                                *)
BackgroundStop_NoCancel ==
    /\ cli.phase = "observer_stopped"
    /\ cli' = [cli EXCEPT !.phase = "stopped"]
    /\ background_processor' = [background_processor EXCEPT !.is_running = FALSE]
    /\ UNCHANGED <<now, monitor_vars, chat_vars, config_vars, observer_vars,
                   navigator_vars, analyzer_vars>>

(* The rest of shutdown: BackgroundProcessor.stop clears is_running,       *)
(* cancels the task if there is one and awaits its end.                    *)
BackgroundStop ==
    /\ cli.phase = "observer_stopped"
    /\ cli' = [cli EXCEPT !.phase = "stopped"]
    /\ background_processor' =
           [background_processor EXCEPT
               !.is_running = FALSE,
               !.background_task =
                   IF background_processor.background_task = "pending"
                   THEN "done" ELSE background_processor.background_task]
    /\ UNCHANGED <<now, monitor_vars, chat_vars, config_vars, observer_vars,
                   navigator_vars, analyzer_vars>>

(* The watcher emits events until stop_watching has stopped its thread.    *)
ShutdownFileEvent == cli.phase = "running" /\ ObserverFileEvent

ShutdownCallbackReturns == \E f \in in_flight : ShutdownFlushReturn(f)

NextShutdown ==
    \/ ShutdownFileEvent
    \/ ShutdownCallbackReturns
    \/ BackgroundStart
    \/ BackgroundLoop
    \/ StopWatching
    \/ BackgroundStop
    \/ ObserverSleep

(* The asyncio program from its start to the end of shutdown.              *)
SpecShutdown == Init /\ [][NextShutdown]_vars

-----------------------------------------------------------------------------
(* Properties.                                                             *)

(* A trigger fired in the latest handled notification.                     *)
Triggered == last_eval.evaluated /\ last_eval.triggered

(* C1: in every reachable state the rolling score sum equals the sum of    *)
(* the scores of the records retained in the buffer.                       *)
C1_ScoreEqualsSum == buffer_score = SumScores(change_buffer)

(* A full buffer took one more record (its oldest was dropped) and the     *)
(* records kept carry a positive score.                                    *)
C1_Witness ==
    /\ last_eval.overflowed
    /\ Len(change_buffer) = buffer_maxlen
    /\ buffer_score > 0

(* C2: after every adjustment the current threshold lies between           *)
(* min_score_threshold and max_score_threshold, the controller having been *)
(* initialised from the configured score_threshold.                        *)
C2_ThresholdWithinBounds ==
    feedback_history # <<>> =>
        /\ min_score_threshold <= current_score_threshold
        /\ current_score_threshold <= max_score_threshold

(* C3: an evaluation made less than processing_cooldown after the previous *)
(* trigger returns no trigger, whatever the score.                         *)
C3_NoTriggerWithinCooldown ==
    Triggered => last_eval.since_processing >= processing_cooldown

(* Inside the cooldown that follows a trigger the buffer holds at least    *)
(* min_buffer_size records whose score reaches the threshold, and the      *)
(* evaluation does not trigger.                                            *)
C3_Witness ==
    /\ last_eval.evaluated
    /\ ~last_eval.triggered
    /\ last_processing_time > 0
    /\ last_eval.since_processing > 0
    /\ last_eval.since_processing < processing_cooldown
    /\ last_eval.retained >= min_buffer_size
    /\ last_eval.score >= last_eval.threshold

(* C4: whenever a trigger fires, the number of records retained after the  *)
(* age-based eviction of that evaluation (the batch's total_changes) is at *)
(* least min_buffer_size.                                                  *)
C4_TriggerAtLeastMinRetained ==
    Triggered => last_eval.summary.total_changes >= min_buffer_size

(* The first condition that holds at an evaluation, in the order           *)
(* score_threshold, idle_timeout, function_completion,                     *)
(* architectural_change, buffer_full.                                      *)
FirstMatchingReason(e) ==
    IF e.score >= e.threshold THEN "score_threshold"
    ELSE IF e.idle_time >= idle_threshold /\ e.retained > 0 THEN "idle_timeout"
    ELSE IF e.function_completion THEN "function_completion"
    ELSE IF e.architectural_change THEN "architectural_change"
    ELSE IF e.retained >= buffer_threshold THEN "buffer_full"
    ELSE "no_match"

(* C5: whenever a trigger fires, the batch's processing_reason is the      *)
(* first condition that holds, in the strict priority order, and never any *)
(* other value.                                                            *)
C5_ReasonIsFirstMatch ==
    Triggered => last_eval.summary.processing_reason = FirstMatchingReason(last_eval)

(* The idle condition: the buffer is non-empty and idle_threshold seconds  *)
(* have passed since the last activity.                                    *)
IdleDue ==
    /\ change_buffer # <<>>
    /\ now - last_activity_time >= idle_threshold

IdleFired ==
    /\ Triggered
    /\ last_eval.summary.processing_reason = "idle_timeout"

(* C6: the idle trigger fires iff the buffer is non-empty and              *)
(* now - last_activity >= idle_threshold, independent of score: when the   *)
(* program takes a step in a state where the idle condition holds and no   *)
(* notification arrives, that step is the idle trigger.                    *)
C6_IdleFiresWhenDue ==
    [][(IdleDue /\ events_handled' = events_handled) => IdleFired']_vars

(* C7: if the buffer holds at least min_buffer_size records whose rolling  *)
(* score is below the threshold and no further notification arrives, then  *)
(* once idle_threshold seconds have passed since the last activity a       *)
(* trigger eventually fires with processing_reason idle_timeout.           *)
C7_IdleEventuallyFires ==
    \A n \in 0..MaxMonitorEvents :
        (/\ events_handled = n
         /\ Len(change_buffer) >= min_buffer_size
         /\ buffer_score < score_threshold
         /\ now - last_activity_time >= idle_threshold)
        ~> (IdleFired \/ events_handled # n)

(* C8: every trigger evaluation compares the rolling score sum against the *)
(* feedback controller's current threshold at that moment.                 *)
C8_EvaluationUsesAdaptiveThreshold ==
    last_eval.evaluated => last_eval.threshold = last_eval.adaptive_threshold

(* C9: on every trigger the buffer is reset to Empty: right after the      *)
(* trigger it holds no record, the rolling score sum is 0 and the          *)
(* last-trigger timestamp is the time of that trigger.                     *)
C9_TriggerResetsBuffer ==
    [][(events_handled' # events_handled /\ last_eval'.triggered)
        => /\ change_buffer' = <<>>
           /\ buffer_score' = 0
           /\ last_processing_time' = now']_vars

(* A trigger on a batch with a positive score has just been processed, the *)
(* handlers having taken some time.                                        *)
C9_Witness ==
    /\ Triggered
    /\ last_eval.summary.buffer_score > 0
    /\ change_buffer = <<>>
    /\ buffer_score = 0
    /\ last_processing_time = now
    /\ now > last_eval.current_time

(* C10: if after an append the retained record count is at least           *)
(* min_buffer_size, the cooldown has elapsed and the rolling score sum     *)
(* reaches the threshold, the evaluation triggers with processing_reason   *)
(* score_threshold.                                                        *)
C10_ScoreThresholdTriggers ==
    (/\ last_eval.evaluated
     /\ last_eval.retained >= min_buffer_size
     /\ last_eval.since_processing >= processing_cooldown
     /\ last_eval.score >= last_eval.threshold)
    => (/\ last_eval.triggered
        /\ last_eval.summary.processing_reason = "score_threshold")

(* Three changes scoring 2 each: the sum 6 reaches the threshold 5.        *)
C10_Witness ==
    /\ Triggered
    /\ last_eval.retained = 3
    /\ last_eval.summary.buffer_score = 6
    /\ last_eval.threshold = 5
    /\ last_eval.summary.processing_reason = "score_threshold"

(* C11: for a stream of minor changes whose rolling score stays below the  *)
(* score threshold, with activity continuing, no comment is surfaced:      *)
(* while every change handled so far is still in the buffer and their      *)
(* score is below the threshold, the evaluation surfaces nothing.          *)
C11_NoCommentBelowThreshold ==
    (/\ last_eval.evaluated
     /\ last_eval.retained = events_handled
     /\ last_eval.score < last_eval.threshold
     /\ last_eval.idle_time < idle_threshold)
    => ~last_eval.surfaced

(* A user input was handled by process_user_input in this step.            *)
InputStep ==
    /\ inputs_handled' = inputs_handled + 1
    /\ conversation_history' # <<>>

(* C12: each consumed feedback moves the threshold by one clamped step:    *)
(* positive feedback to max(minimum, current - threshold_adjustment),      *)
(* negative feedback to min(maximum, current + threshold_adjustment).      *)
C12_OneClampedStep ==
    [][(InputStep /\ last_input'.feedback_processed) =>
        /\ last_input'.text = "positive" =>
              current_score_threshold' =
                  IF current_score_threshold - threshold_adjustment >= min_score_threshold
                  THEN current_score_threshold - threshold_adjustment
                  ELSE min_score_threshold
        /\ last_input'.text = "negative" =>
              current_score_threshold' =
                  IF current_score_threshold + threshold_adjustment <= max_score_threshold
                  THEN current_score_threshold + threshold_adjustment
                  ELSE max_score_threshold]_vars

(* Under a configuration within the bounds, a negative feedback arrived    *)
(* with the threshold at its maximum and left it there.                    *)
C12_Witness ==
    /\ limits_score_threshold >= min_score_threshold
    /\ limits_score_threshold <= max_score_threshold
    /\ last_input.feedback_processed /\ last_input.text = "negative"
    /\ feedback_history # <<>>
    /\ feedback_history[Len(feedback_history)].old_threshold = max_score_threshold
    /\ current_score_threshold = max_score_threshold

(* C13: a pending intervention is consumed at most once: no two feedback   *)
(* records (threshold adjustments) are made for the same comment.          *)
C13_ConsumedAtMostOnce ==
    \A i, j \in DOMAIN feedback_history :
        (/\ feedback_history[i].comment_type = feedback_history[j].comment_type
         /\ feedback_history[i].comment_seq = feedback_history[j].comment_seq)
        => i = j

(* A feedback-bearing input arrived while the proactive comment consumed   *)
(* before was still unexpired, and adjusted nothing.                       *)
C13_Witness ==
    /\ last_input.handled /\ last_input.text \in {"positive", "negative"}
    /\ ~last_input.feedback_processed
    /\ feedback_history # <<>>
    /\ \E k \in DOMAIN conversation_history :
          /\ conversation_history[k].role = "assistant"
          /\ conversation_history[k].type = "proactive"
          /\ ~conversation_history[k].awaiting_feedback
          /\ conversation_history[k].feedback_timeout > now
          /\ conversation_history[k].seq =
                 feedback_history[Len(feedback_history)].comment_seq

(* No pending intervention is unexpired.                                   *)
NoUnexpiredPending ==
    \A k \in DOMAIN conversation_history :
        \/ conversation_history[k].role # "assistant"
        \/ ~conversation_history[k].awaiting_feedback
        \/ conversation_history[k].feedback_timeout <= now

(* C14: when adaptive learning is disabled, the text matches no feedback   *)
(* keyword, or no unexpired pending intervention exists, the input is      *)
(* not consumed as feedback and the threshold, the feedback history and    *)
(* every pending intervention already there are left as they were.         *)
C14_RejectedFeedbackIsNoOp ==
    [][(/\ InputStep
        /\ \/ ~limits_adaptive_learning
           \/ last_input'.text = "neutral"
           \/ NoUnexpiredPending)
       => /\ ~last_input'.feedback_processed
          /\ current_score_threshold' = current_score_threshold
          /\ feedback_history' = feedback_history
          /\ \A k \in DOMAIN conversation_history' :
                (/\ conversation_history'[k].role = "assistant"
                 /\ conversation_history'[k].seq # inputs_handled')
                => \E m \in DOMAIN conversation_history :
                       conversation_history[m] = conversation_history'[k]]_vars

(* A feedback keyword arrived after the only pending intervention had      *)
(* expired: nothing was consumed and the expired entry is still there.     *)
C14_Witness ==
    /\ last_input.handled /\ last_input.text \in {"positive", "negative"}
    /\ ~last_input.feedback_processed
    /\ limits_adaptive_learning
    /\ feedback_history = <<>>
    /\ \E k \in DOMAIN conversation_history :
          /\ conversation_history[k].awaiting_feedback
          /\ conversation_history[k].feedback_timeout <= now

(* C15: the threshold is adjusted only by feedback on a surfaced proactive *)
(* intervention, never by feedback following a conversational reply.      *)
C15_OnlyProactiveAdjusts ==
    \A i \in DOMAIN feedback_history :
        feedback_history[i].comment_type = "proactive"

(* The threshold a fresh controller reaches from threshold when the        *)
(* feedback events of records are given to it in their order.              *)
RECURSIVE Replay(_, _)
Replay(threshold, records) ==
    IF records = <<>> THEN threshold
    ELSE Replay(AdjustedThreshold(Head(records).is_positive, threshold),
                Tail(records))

(* C16: replaying the ordered sequence of feedback events the controller   *)
(* has consumed since it was fresh, from the configured threshold, yields  *)
(* the controller's threshold: the final threshold is a function of that   *)
(* sequence alone, so two replays of one sequence end at one threshold.    *)
C16_ReplayYieldsThreshold ==
    current_score_threshold = Replay(limits_score_threshold, feedback_history)

(* Feedback in both directions was consumed, time passed in between and    *)
(* the threshold has moved away from the configured one.                   *)
C16_Witness ==
    /\ Len(feedback_history) >= 3
    /\ \E i, j \in DOMAIN feedback_history :
          feedback_history[i].is_positive /\ ~feedback_history[j].is_positive
    /\ now > StartTime
    /\ current_score_threshold # limits_score_threshold

(* The decision stage was asked, with confirmation enabled and the client  *)
(* available, and the language model returned decision.response.           *)
Answered ==
    /\ decision.made /\ decision.enabled /\ decision.available
    /\ decision.outcome = "response"

SaysYes == Contains(Lower(decision.response), <<"y", "e", "s">>)
SaysNo == Contains(Lower(decision.response), <<"n", "o">>)

(* The integers in [1,10] that appear in the response as numbers of their  *)
(* own, left to right.                                                     *)
ConfidenceNumbers == FindAllWordBoundary(decision.response, 1)

LastConfidence == MatchValue(ConfidenceNumbers[Len(ConfidenceNumbers)])

(* C17: when the response contains "yes" and no "no", the outcome is       *)
(* Accept iff the last confidence number found is at least the confidence  *)
(* threshold, and Accept when no confidence number is found.               *)
C17_ConfidenceDecides ==
    (Answered /\ SaysYes /\ ~SaysNo) =>
        /\ decision.intervene =
               (ConfidenceNumbers = <<>> \/ LastConfidence >= confidence_threshold)
        /\ decision.comment =
               (ConfidenceNumbers = <<>> \/ LastConfidence >= confidence_threshold)

(* C18: a response in which neither "yes" nor "no" is present, or in which *)
(* "no" is present, is parsed as Reject.                                   *)
C18_NoOrUnclearRejects ==
    (Answered /\ (SaysNo \/ ~SaysYes)) => (~decision.intervene /\ ~decision.comment)

(* "yes" and "no" together with a confidence number at the threshold or    *)
(* above: rejected.                                                        *)
C18_Witness ==
    /\ Answered /\ SaysYes /\ SaysNo
    /\ ConfidenceNumbers # <<>>
    /\ LastConfidence >= confidence_threshold
    /\ ~decision.intervene /\ ~decision.comment

(* C19: with LLM-based confirmation disabled the decision is Accept,       *)
(* whatever the client and the language model would do, and the language   *)
(* model is not asked.                                                     *)
C19_DisabledAccepts ==
    (decision.made /\ ~decision.enabled) =>
        (decision.intervene /\ decision.comment /\ ~decision.queried)

(* Confirmation is disabled, the language model would have answered NO,    *)
(* and the batch is accepted.                                              *)
C19_Witness ==
    /\ decision.made /\ ~decision.enabled /\ decision.available
    /\ decision.outcome = "response" /\ SaysNo
    /\ decision.intervene /\ decision.comment

(* C20: with LLM confirmation enabled, every failure to reach the language *)
(* model (client unavailable, call raising, call timing out or returning   *)
(* no response) yields Reject.                                             *)
C20_UnreachableRejects ==
    (/\ decision.made /\ decision.enabled
     /\ \/ ~decision.available
        \/ decision.outcome \in {"none", "raises"}
        \/ decision.response = <<>>)
    => (~decision.intervene /\ ~decision.comment)

(* C21: a failure of the language model or of a change handler during a   *)
(* trigger does not propagate: the buffer is still reset, the last-trigger *)
(* timestamp is still updated, and the thresholds, the feedback history    *)
(* and the conversation are unchanged.                                     *)
C21_HandlerFailureContained ==
    [][(events_handled' # events_handled /\ last_eval'.handler_failed)
        => /\ change_buffer' = <<>>
           /\ buffer_score' = 0
           /\ last_processing_time' = now'
           /\ score_threshold' = score_threshold
           /\ current_score_threshold' = current_score_threshold
           /\ feedback_history' = feedback_history
           /\ conversation_history' = conversation_history]_vars

(* After a trigger whose handler failed, a later batch triggered on the    *)
(* score threshold and its comment was surfaced.                           *)
C21_Witness ==
    /\ last_eval.after_failure /\ ~last_eval.handler_failed
    /\ Triggered /\ last_eval.surfaced
    /\ last_eval.summary.processing_reason = "score_threshold"
    /\ change_buffer = <<>>

(* C22: at most one decision call is in flight at any time: a notification *)
(* arriving while a callback is outstanding starts no second flush.        *)
C22_OneDecisionInFlight == Cardinality(in_flight) <= 1

(* C23: notifications that arrive while a decision call is outstanding are *)
(* not discarded by the reset that follows the call: an event leaves the   *)
(* buffer only after it has been part of an evaluated batch.               *)
C23_NoEventDiscardedUnevaluated ==
    [][\A id \in EventIds(event_buffer) :
          id \notin EventIds(event_buffer') => id \in evaluated']_vars

(* C30: no notification is counted in more than one delivered batch.       *)
C30_NoEventDeliveredTwice ==
    \A i, j \in DOMAIN delivered :
        i # j => delivered[i] \cap delivered[j] = {}

(* C24: the priority_level of a triggered batch is high if the rolling     *)
(* score is at least 1.5 times the threshold or some retained record has   *)
(* an individual score of 4 or more; otherwise medium if the rolling score *)
(* reaches the threshold or a function completion is present in the most   *)
(* recent 3 records; otherwise low.                                        *)
C24_PriorityLevel ==
    Triggered =>
        last_eval.summary.priority_level =
            IF \/ 2 * last_eval.score >= 3 * last_eval.threshold
               \/ last_eval.high_priority_patterns
            THEN "high"
            ELSE IF \/ last_eval.score >= last_eval.threshold
                    \/ last_eval.function_completion
            THEN "medium"
            ELSE "low"

(* C25: for all inputs, rules with negative points included, the score    *)
(* assigned to a change is at least 0, both as returned by the scoring     *)
(* engine and as assigned to the change event.                             *)
C25_ScoreNonNegative ==
    scoring.made => (scoring.engine_score >= 0 /\ scoring.score >= 0)

(* The matched rules sum to less than -1, so that the floor is what keeps  *)
(* the score at 0.                                                         *)
C25_Witness ==
    /\ scoring.made /\ scoring.outcome = "read"
    /\ scoring.pattern_score < -1
    /\ scoring.engine_score = 0
    /\ scoring.score = 0

(* C26: after an age-based eviction the rolling score sum equals the sum   *)
(* of the scores of the records that remain, both as the evaluation sees   *)
(* it and as the buffer keeps it when no trigger follows.                  *)
C26_EvictionRecomputesScore ==
    (last_eval.evaluated /\ last_eval.retained < last_eval.buffer_size) =>
        /\ last_eval.score = last_eval.retained_score
        /\ ~last_eval.triggered =>
               /\ Len(change_buffer) = last_eval.retained
               /\ buffer_score = SumScores(change_buffer)

(* Records with a positive score were evicted for their age and records    *)
(* with a positive score remain.                                           *)
C26_Witness ==
    /\ last_eval.evaluated /\ ~last_eval.triggered
    /\ last_eval.retained < last_eval.buffer_size
    /\ last_eval.evicted_score > 0
    /\ change_buffer # <<>>
    /\ buffer_score > 0

(* kept is what is left of buf after some of its oldest elements are      *)
(* dropped.                                                                *)
IsSuffix(kept, buf) ==
    /\ Len(kept) <= Len(buf)
    /\ kept = SubSeq(buf, Len(buf) - Len(kept) + 1, Len(buf))

(* C27: the buffer never holds more than buffer_maxlen records; when a     *)
(* notification is appended the records kept from before stay in their     *)
(* order with only oldest ones dropped, and an append to a full buffer     *)
(* whose records are all young enough drops exactly the oldest one.        *)
C27_BoundedInArrivalOrder ==
    /\ [](Len(change_buffer) <= buffer_maxlen)
    /\ [][(events_handled' # events_handled /\ change_buffer' # <<>>) =>
            LET kept == SubSeq(change_buffer', 1, Len(change_buffer') - 1)
            IN  /\ IsSuffix(kept, change_buffer)
                /\ change_buffer'[Len(change_buffer')].timestamp = now
                /\ (/\ Len(change_buffer) = buffer_maxlen
                    /\ last_eval'.retained = last_eval'.buffer_size)
                   => kept = Tail(change_buffer)]_vars

(* A full buffer took one more record and is full again, its oldest and    *)
(* its newest record being different changes.                              *)
C27_Witness ==
    /\ last_eval.overflowed /\ ~last_eval.triggered
    /\ Len(change_buffer) = buffer_maxlen
    /\ change_buffer[1].score # change_buffer[buffer_maxlen].score

UnexpiredPending ==
    {k \in DOMAIN conversation_history :
        /\ conversation_history[k].role = "assistant"
        /\ conversation_history[k].awaiting_feedback
        /\ conversation_history[k].feedback_timeout > now}

(* C29: a feedback-bearing input that is consumed consumes the most recent *)
(* unexpired pending intervention and only that one: the feedback record   *)
(* names it, it is no longer pending, and every other intervention of the  *)
(* history (older unexpired ones, expired ones, consumed ones) is left as  *)
(* it was, so that later feedback can consume the older unexpired ones.    *)
C29_FeedbackConsumesMostRecentOnly ==
    [][(InputStep /\ last_input'.feedback_processed)
       => /\ UnexpiredPending # {}
          /\ LET newest == CHOOSE k \in UnexpiredPending :
                               \A j \in UnexpiredPending : j <= k
                 dropped == Len(conversation_history) + 1
                                - Len(conversation_history')
             IN  /\ Len(conversation_history') =
                        Min2(Len(conversation_history) + 1, max_history_size)
                 /\ feedback_history'[Len(feedback_history')].comment_seq =
                        conversation_history[newest].seq
                 /\ \A k \in DOMAIN conversation_history :
                       k > dropped =>
                           conversation_history'[k - dropped] =
                               IF k = newest
                               THEN [conversation_history[k]
                                         EXCEPT !.awaiting_feedback = FALSE]
                               ELSE conversation_history[k]]_vars

(* Two interventions were pending and unexpired; one feedback consumed the *)
(* more recent one, and the next feedback skipped that consumed entry and  *)
(* consumed the older one.                                                 *)
C29_Witness ==
    /\ Len(feedback_history) >= 2
    /\ last_input.handled /\ last_input.feedback_processed
    /\ LET n == Len(feedback_history)
       IN  /\ feedback_history[n].comment_seq < feedback_history[n - 1].comment_seq
           /\ \E k, m \in DOMAIN conversation_history :
                 /\ k < m
                 /\ conversation_history[k].seq = feedback_history[n].comment_seq
                 /\ conversation_history[m].seq = feedback_history[n - 1].comment_seq
                 /\ conversation_history[k].role = "assistant"
                 /\ conversation_history[m].role = "assistant"
                 /\ ~conversation_history[k].awaiting_feedback
                 /\ ~conversation_history[m].awaiting_feedback
                 /\ conversation_history[m].feedback_timeout > now

(* C31: shutdown terminates the background work cleanly: once shutdown has *)
(* been called it starts no change callback (and so no decision call), and *)
(* when it has finished the background loop is stopped, its task cancelled *)
(* and finished.                                                           *)
C31_ShutdownStartsNothing ==
    /\ cli.phase # "running" => cli.callbacks_started = 0
    /\ cli.phase = "stopped" =>
           /\ ~background_processor.is_running
           /\ background_processor.background_task # "pending"

(* C32: the feedback history is size-capped: however many feedbacks have   *)
(* been consumed, its length never exceeds a fixed bound (the bound of     *)
(* NavigatorAgent.record_feedback is taken).                               *)
C32_FeedbackHistoryCapped == Len(feedback_history) <= feedback_history_limit

(* C33: every feedback record carries the batch score and the trigger      *)
(* reason of the proactive comment it consumed, as stored with the comment *)
(* by handle_proactive_comment.                                            *)
C33_RecordCarriesBatchScoreAndReason ==
    [][(InputStep /\ last_input'.feedback_processed)
       => LET entry == conversation_history[
                           MostRecentAwaiting(conversation_history, now)]
              record == feedback_history'[Len(feedback_history')]
          IN  entry.type = "proactive" =>
                  /\ record.comment_score = entry.metadata.score
                  /\ record.comment_reason = entry.metadata.reason]_vars

(* C34: every feedback record is consistent with the threshold trajectory: *)
(* its old_threshold is the threshold just before the adjustment, its      *)
(* new_threshold the threshold just after, also when the adjustment was    *)
(* clamped, so the old_threshold of a record is the new_threshold of the   *)
(* record before it.                                                       *)
C34_RecordsFollowThreshold ==
    /\ [][feedback_system'.feedback_history # feedback_system.feedback_history
          => LET record == feedback_system'.feedback_history[
                               Len(feedback_system'.feedback_history)]
             IN  /\ record.old_threshold = feedback_system.current_score_threshold
                 /\ record.new_threshold = feedback_system'.current_score_threshold]_vars
    /\ [](\A k \in 2..Len(feedback_system.feedback_history) :
             feedback_system.feedback_history[k].old_threshold =
                 feedback_system.feedback_history[k - 1].new_threshold)

(* C35: the trend classification follows monotonicity over the last three  *)
(* threshold values of the history: decreasing only if they are            *)
(* non-increasing in order, increasing only if they are non-decreasing in  *)
(* order, fluctuating otherwise.                                           *)
C35_TrendFollowsMonotonicity ==
    Len(feedback_history) >= 3 =>
        LET n == Len(feedback_history)
            t1 == feedback_history[n - 2].new_threshold
            t2 == feedback_history[n - 1].new_threshold
            t3 == feedback_history[n].new_threshold
            trend == ThresholdTrend(feedback_history)
        IN  /\ trend = "decreasing" => (t1 >= t2 /\ t2 >= t3)
            /\ trend = "increasing" => (t1 <= t2 /\ t2 <= t3)
            /\ trend = "fluctuating" =>
                   (~(t1 >= t2 /\ t2 >= t3) /\ ~(t1 <= t2 /\ t2 <= t3))

(* C36: unreadable files are scored 0 and flagged, and scoring never        *)
(* raises: when reading the changed file fails the resulting record has    *)
(* score 0 and an error flag in its details.                               *)
C36_UnreadableScoresZeroAndFlagged ==
    (change_analyzer.last.made /\ change_analyzer.last.outcome = "raises")
    => /\ change_analyzer.last.score = 0
       /\ change_analyzer.last.error

C38_RaisingThresholdNeverAddsComments ==
    LET hist == navigator.conversation_history
        current == feedback_system.current_score_threshold
    IN  \A changes_summary \in GateSummaries :
            /\ \A t \in {current - 1, current} :
                  ShouldGenerateComment(changes_summary, t + 1, hist)
                  => ShouldGenerateComment(changes_summary, t, hist)
            /\ (/\ changes_summary.processing_reason = "score_threshold"
                /\ changes_summary.buffer_score >= current)
               => ShouldGenerateComment(changes_summary, current, hist)

(* Two comments were made, and with them in the history there is a batch   *)
(* the gate accepts at the current threshold and no longer accepts when    *)
(* the threshold is raised by one.                                         *)
C38_Witness ==
    /\ RecentComments(navigator.conversation_history) = 2
    /\ \E changes_summary \in GateSummaries :
          /\ ShouldGenerateComment(changes_summary,
                                   feedback_system.current_score_threshold,
                                   navigator.conversation_history)
          /\ ~ShouldGenerateComment(changes_summary,
                                    feedback_system.current_score_threshold + 1,
                                    navigator.conversation_history)

(* C39: feedback text that matches both a positive and a negative keyword  *)
(* is treated as positive: with adaptive learning enabled and an unexpired *)
(* pending intervention it is consumed, lowers the threshold by one        *)
(* clamped step, is recorded as positive and never raises the threshold.   *)
C39_BothKeywordsCountAsPositive ==
    [][(/\ InputStep
        /\ last_input'.text = "both"
        /\ limits_adaptive_learning
        /\ Awaiting(conversation_history, now) # {})
       => /\ last_input'.feedback_processed
          /\ current_score_threshold' =
                 IF current_score_threshold - threshold_adjustment >= min_score_threshold
                 THEN current_score_threshold - threshold_adjustment
                 ELSE min_score_threshold
          /\ current_score_threshold' <= current_score_threshold
          /\ Len(feedback_history') = Len(feedback_history) + 1
          /\ feedback_history'[Len(feedback_history')].is_positive]_vars

(* An input matching both kinds of keyword answered a pending comment and  *)
(* lowered the threshold by one step.                                      *)
C39_Witness ==
    /\ last_input.handled /\ last_input.text = "both"
    /\ last_input.feedback_processed
    /\ feedback_history # <<>>
    /\ feedback_history[Len(feedback_history)].is_positive
    /\ feedback_history[Len(feedback_history)].new_threshold =
           feedback_history[Len(feedback_history)].old_threshold - threshold_adjustment
    /\ current_score_threshold = feedback_history[Len(feedback_history)].new_threshold

====
